---------------------------- MODULE Spec2Model ----------------------------
(***************************************************************************)
(* A state-machine model of InnerEye/ML/lightning_models.py: the data      *)
(* module TrainingAndValidationDataForSegmentation and the Lightning       *)
(* modules InnerEyeLightning / SegmentationLightning / ScalarLightning.    *)
(*                                                                         *)
(* The objects are driven by a caller (the training framework).  One       *)
(* action is one call of a method or hook.  A call that raises leaves the  *)
(* object with the assignments made before the raise and records the       *)
(* exception in the call record (dmCall / lastCall); the caller may go on  *)
(* calling.  An attribute that no executed statement of the file has       *)
(* assigned is absent, and reading it raises AttributeError.  Attributes   *)
(* and methods of the framework's hook interface (self.log, self.trainer,  *)
(* self.current_epoch) are supplied by the framework.                      *)
(*                                                                         *)
(* Time is counted in ticks of MAX_ITEM_LOAD_TIME_SEC (half a second).     *)
(***************************************************************************)
EXTENDS Integers, Sequences, FiniteSets, TLC

VARIABLES
    \* ---- TrainingAndValidationDataForSegmentation
    dm_config,                    \* self.config of the data module
    data_loaders,                 \* self.data_loaders
    dmCall,                       \* the last call on the data module and its outcome
    \* ---- InnerEyeLightning and its two subclasses
    family,                       \* "segmentation" or "scalar": the class of the object
    epoch_start_time,
    item_start_time,
    num_load_time_warnings,
    num_load_time_exceeded,
    num_batches,
    total_extra_load_time,
    total_load_time,
    train_metrics_per_epoch,
    validation_metrics_per_epoch,
    metrics,                      \* self.metrics, a MetricsDict
    random_state,                 \* self.random_state: None or a RandomStateSnapshot
    lastCall,                     \* the last hook call on the module and its outcome
    \* ---- the environment of the module
    now,                          \* time.time()
    rng,                          \* the state of the global random generators
    warningsLogged,               \* number of "Loading ... minibatch ... took" warnings logged
    logged,                       \* what self.log has been given, in order
    events,                       \* the timer-relevant calls since the last reset_timers
    current_epoch,                \* trainer.current_epoch
    trainerPos                    \* position of the framework's fit loop

dmVars == <<dm_config, data_loaders, dmCall>>

timerVars == <<epoch_start_time, item_start_time, num_load_time_warnings,
               num_load_time_exceeded, num_batches, total_extra_load_time,
               total_load_time>>

historyVars == <<train_metrics_per_epoch, validation_metrics_per_epoch>>

trainerVars == <<current_epoch, trainerPos>>

lmVars == <<family, timerVars, historyVars, metrics, random_state, lastCall,
            now, rng, warningsLogged, logged, events>>

vars == <<dmVars, lmVars, trainerVars>>

----------------------------------------------------------------------------
\* Program constants and the bounds of the model

MAX_ITEM_LOAD_TIME_SEC == 1
MAX_LOAD_TIME_WARNINGS == 3

NumConfigs == 3       \* configurations a data module may be given
MaxTime == 5          \* the clock stops here
MaxEvents == 3        \* batch hook calls followed per epoch
MaxEpochs == 2        \* entries kept per epoch history list
MaxSteps == 2         \* training/validation steps followed per accumulator
MaxLogged == 3        \* self.log calls followed
NumSamples == 2       \* distinct minibatches
NumRng == 3           \* distinct random generator states

NoLoader == <<"none", 0>>   \* no loader returned
NoValue == <<>>             \* None, or no value returned; a value v is <<v>>

Configs == 1..NumConfigs
Samples == 1..NumSamples
RngStates == 0..(NumRng - 1)

RECURSIVE SumSeq(_)
SumSeq(s) == IF s = <<>> THEN 0 ELSE Head(s) + SumSeq(Tail(s))

RECURSIVE SelectValues(_, _, _)
\* the values of the entries of seq with the given metric and hue, in order
SelectValues(seq, metric, hue) ==
    IF seq = <<>> THEN <<>>
    ELSE LET e == Head(seq)
             rest == SelectValues(Tail(seq), metric, hue)
         IN IF e.metric = metric /\ e.hue = hue THEN <<e.value>> \o rest ELSE rest

----------------------------------------------------------------------------
\* TrainingAndValidationDataForSegmentation

\* self.config and self.data_loaders are absent (never assigned), None, or set
AbsentAttr == [kind |-> "absent", TRAIN |-> NoLoader, VAL |-> NoLoader]
NoneAttr == [kind |-> "None", TRAIN |-> NoLoader, VAL |-> NoLoader]

\* config.create_data_loaders(): a dictionary from execution mode to loader
create_data_loaders(config) ==
    [kind |-> "dict", TRAIN |-> <<"train_loader", config>>,
                      VAL |-> <<"val_loader", config>>]

\* self.data_loaders[mode]
Subscript(d, mode) ==
    CASE d.kind = "absent" -> [outcome |-> "AttributeError", ret |-> NoLoader]
      [] d.kind = "None" -> [outcome |-> "TypeError", ret |-> NoLoader]
      [] OTHER -> [outcome |-> "returned", ret |-> d[mode]]

\* The method is spelt _init__, so construction does not run it; it is an
\* ordinary method that a caller can call.
Dm_init__(config) ==
    /\ dm_config' = <<config>>
    /\ data_loaders' = NoneAttr
    /\ dmCall' = [op |-> "_init__", outcome |-> "returned", ret |-> NoLoader]

setup ==
    /\ IF dm_config = NoValue
       THEN /\ data_loaders' = data_loaders
            /\ dmCall' = [op |-> "setup", outcome |-> "AttributeError", ret |-> NoLoader]
       ELSE /\ data_loaders' = create_data_loaders(dm_config[1])
            /\ dmCall' = [op |-> "setup", outcome |-> "returned", ret |-> NoLoader]
    /\ UNCHANGED dm_config

train_dataloader_result == Subscript(data_loaders, "TRAIN")

train_dataloader ==
    /\ dmCall' = [op |-> "train_dataloader"] @@ train_dataloader_result
    /\ UNCHANGED <<dm_config, data_loaders>>

val_dataloader_result == Subscript(data_loaders, "VAL")

val_dataloader ==
    /\ dmCall' = [op |-> "val_dataloader"] @@ val_dataloader_result
    /\ UNCHANGED <<dm_config, data_loaders>>

test_dataloader_result == [outcome |-> "NotImplementedError", ret |-> NoLoader]

test_dataloader ==
    /\ dmCall' = [op |-> "test_dataloader"] @@ test_dataloader_result
    /\ UNCHANGED <<dm_config, data_loaders>>

\* after TrainingAndValidationDataForSegmentation(config): __init__ of the
\* framework's base class ran, _init__ did not
DmInit ==
    /\ dm_config = NoValue
    /\ data_loaders = AbsentAttr
    /\ dmCall = [op |-> "__init__", outcome |-> "returned", ret |-> NoLoader]

----------------------------------------------------------------------------
\* Collaborators of the Lightning modules that the file imports

DEFAULT_HUE_KEY == "Default"
BACKGROUND_CLASS_NAME == "background"
ground_truth_ids == <<"structure">>        \* config.ground_truth_ids
get_effective_random_seed == 0             \* config.get_effective_random_seed()

\* MetricsDict(hues=...): a new, empty accumulator.  id tells objects apart.
MetricsDict(id, hues) ==
    [id |-> id, hues |-> hues, values |-> <<>>, diagnostics |-> <<>>]

\* the identity of a newly allocated accumulator: not that of the live one
NewId == 1 - metrics.id

add_metric(m, metric, value, hue) ==
    [m EXCEPT !.values = Append(@, [metric |-> metric, hue |-> hue, value |-> value])]

add_diagnostics(m, name, value) ==
    [m EXCEPT !.diagnostics = Append(@, [name |-> name, value |-> value])]

\* the numerical work of a step, done by the injected model and loss objects
loss_fn(sample) == sample
compute_dice_across_patches(sample, i) == (sample + i) % 2
get_number_of_voxels_per_class(sample, i) == sample * i
center_indices(sample) == sample

\* metrics.aggregate_segmentation_metrics: per metric and hue, what the
\* average is taken of (the sum and the number of the values added)
MetricKeys(m) ==
    {[metric |-> m.values[i].metric, hue |-> m.values[i].hue] : i \in 1..Len(m.values)}

aggregate_segmentation_metrics(m) ==
    {[metric |-> k.metric, hue |-> k.hue,
      sum |-> SumSeq(SelectValues(m.values, k.metric, k.hue)),
      count |-> Len(SelectValues(m.values, k.metric, k.hue))] : k \in MetricKeys(m)}

----------------------------------------------------------------------------
\* InnerEyeLightning

Families == {"segmentation", "scalar"}

\* the attributes the constructors assign (lines 52-66, 192-193, 288-292)
AssignedAttributes ==
    {"config", "epoch_start_time", "item_start_time", "num_load_time_warnings",
     "num_load_time_exceeded", "num_batches", "total_extra_load_time",
     "total_load_time", "train_metrics_per_epoch", "validation_metrics_per_epoch",
     "metrics", "random_state", "model", "loss_fn"}

\* getattr(self, name): does it succeed
HasAttr(name) == name \in AssignedAttributes

Call(op, outcome, ret) == [op |-> op, outcome |-> outcome, ret |-> ret]

Event(op, idx) == [op |-> op, idx |-> idx, t |-> now]

\* SegmentationLightning.__init__ returns.  ScalarLightning.__init__ has made
\* every assignment up to self.metrics when reading self.model_config raises.
LmInit ==
    /\ family \in Families
    /\ epoch_start_time = 0
    /\ item_start_time = 0
    /\ num_load_time_warnings = 0
    /\ num_load_time_exceeded = 0
    /\ num_batches = 0
    /\ total_extra_load_time = 0
    /\ total_load_time = 0
    /\ train_metrics_per_epoch = <<>>
    /\ validation_metrics_per_epoch = <<>>
    /\ metrics = IF family = "segmentation" THEN MetricsDict(0, <<>>)
                                            ELSE MetricsDict(1, <<>>)
    /\ random_state = NoValue
    /\ lastCall = Call("__init__",
                       IF HasAttr("model_config") \/ family = "segmentation"
                       THEN "returned" ELSE "AttributeError", NoValue)
    /\ now = MAX_ITEM_LOAD_TIME_SEC + 1
    /\ rng = get_effective_random_seed
    /\ warningsLogged = 0
    /\ logged = <<>>
    /\ events = <<[op |-> "__init__", idx |-> 0, t |-> MAX_ITEM_LOAD_TIME_SEC + 1]>>

\* the slip of leaving num_batches out of the reset
reset_timers_keeping_num_batches ==
    /\ epoch_start_time' = now
    /\ item_start_time' = now
    /\ num_load_time_warnings' = 0
    /\ num_load_time_exceeded' = 0
    /\ total_extra_load_time' = 0
    /\ total_load_time' = 0
    /\ num_batches' = num_batches

reset_timers ==
    /\ epoch_start_time' = now
    /\ item_start_time' = now
    /\ num_load_time_warnings' = 0
    /\ num_load_time_exceeded' = 0
    /\ total_extra_load_time' = 0
    /\ total_load_time' = 0
    /\ num_batches' = 0

\* RandomStateSnapshot.snapshot_random_state()
snapshot_random_state == <<rng>>

\* the slip of testing the truth of the snapshotted value, not of the snapshot
restore_random_state_if_nonzero(rs, current) ==
    IF rs # NoValue /\ rs[1] # 0 THEN rs[1] ELSE current

\* "if self.random_state: self.random_state.restore_random_state()": the
\* generator state afterwards
restore_random_state(rs, current) == IF rs # NoValue THEN rs[1] ELSE current

InnerEyeLightning_on_train_epoch_start ==
    /\ reset_timers
    /\ rng' = restore_random_state(random_state, rng)

InnerEyeLightning_on_validation_epoch_start ==
    /\ reset_timers
    /\ rng' = get_effective_random_seed

\* SegmentationLightning.epoch_start
epoch_start ==
    metrics' = MetricsDict(NewId, <<BACKGROUND_CLASS_NAME>> \o ground_truth_ids)

\* ScalarLightning overrides neither hook and has no epoch_start
on_train_epoch_start ==
    /\ InnerEyeLightning_on_train_epoch_start
    /\ IF family = "segmentation" THEN epoch_start ELSE UNCHANGED metrics
    /\ events' = <<Event("reset_timers", 0)>>
    /\ lastCall' = Call("on_train_epoch_start", "returned", NoValue)
    /\ UNCHANGED <<family, historyVars, random_state, now, warningsLogged, logged>>

on_validation_epoch_start ==
    /\ InnerEyeLightning_on_validation_epoch_start
    /\ IF family = "segmentation" THEN epoch_start ELSE UNCHANGED metrics
    /\ events' = <<Event("reset_timers", 0)>>
    /\ lastCall' = Call("on_validation_epoch_start", "returned", NoValue)
    /\ UNCHANGED <<family, historyVars, random_state, now, warningsLogged, logged>>

\* InnerEyeLightning.epoch_end with SegmentationLightning.aggregate_metrics
InnerEyeLightning_epoch_end(is_training) ==
    LET epoch_time_seconds == now - epoch_start_time
        result == [agg |-> aggregate_segmentation_metrics(metrics),
                   lr |-> "get_last_lr",
                   seconds |-> epoch_time_seconds]
    IN /\ train_metrics_per_epoch' =
              IF is_training THEN Append(train_metrics_per_epoch, result)
                             ELSE train_metrics_per_epoch
       /\ validation_metrics_per_epoch' =
              IF is_training THEN validation_metrics_per_epoch
                             ELSE Append(validation_metrics_per_epoch, result)

\* ScalarLightning.epoch_end: evaluating the argument self.train_val_params.epoch
\* raises before anything is stored; no statement of the override appends
ScalarLightning_epoch_end(is_training) ==
    UNCHANGED <<train_metrics_per_epoch, validation_metrics_per_epoch>>

ScalarLightning_epoch_end_outcome ==
    IF HasAttr("train_val_params") THEN "returned" ELSE "AttributeError"

epoch_end(is_training) ==
    IF family = "segmentation" THEN InnerEyeLightning_epoch_end(is_training)
                               ELSE ScalarLightning_epoch_end(is_training)

epoch_end_outcome ==
    IF family = "segmentation" THEN "returned" ELSE ScalarLightning_epoch_end_outcome

on_train_epoch_end ==
    /\ random_state' = snapshot_random_state
    /\ epoch_end(TRUE)
    /\ lastCall' = Call("on_train_epoch_end", epoch_end_outcome, NoValue)
    /\ UNCHANGED <<family, timerVars, metrics, now, rng, warningsLogged, logged, events>>

on_validation_epoch_end ==
    /\ epoch_end(FALSE)
    /\ lastCall' = Call("on_validation_epoch_end", epoch_end_outcome, NoValue)
    /\ UNCHANGED <<family, timerVars, metrics, random_state, now, rng,
                   warningsLogged, logged, events>>

\* the slip of not exempting the first minibatch
batch_start_counting_first(batch_idx, is_training) ==
    LET item_load_time == now - item_start_time
        exceeded == item_load_time > MAX_ITEM_LOAD_TIME_SEC
        warned == exceeded /\ num_load_time_warnings < MAX_LOAD_TIME_WARNINGS
    IN /\ total_load_time' = total_load_time + item_load_time
       /\ num_load_time_exceeded' = num_load_time_exceeded + (IF exceeded THEN 1 ELSE 0)
       /\ total_extra_load_time' =
              total_extra_load_time + (IF exceeded THEN item_load_time ELSE 0)
       /\ num_load_time_warnings' = num_load_time_warnings + (IF warned THEN 1 ELSE 0)
       /\ warningsLogged' = warningsLogged + (IF warned THEN 1 ELSE 0)
       /\ UNCHANGED <<epoch_start_time, item_start_time, num_batches>>

batch_start(batch_idx, is_training) ==
    LET item_load_time == now - item_start_time
        exceeded == batch_idx # 0 /\ item_load_time > MAX_ITEM_LOAD_TIME_SEC
        warned == exceeded /\ num_load_time_warnings < MAX_LOAD_TIME_WARNINGS
    IN /\ total_load_time' = total_load_time + item_load_time
       /\ num_load_time_exceeded' = num_load_time_exceeded + (IF exceeded THEN 1 ELSE 0)
       /\ total_extra_load_time' =
              total_extra_load_time + (IF exceeded THEN item_load_time ELSE 0)
       /\ num_load_time_warnings' = num_load_time_warnings + (IF warned THEN 1 ELSE 0)
       /\ warningsLogged' = warningsLogged + (IF warned THEN 1 ELSE 0)
       /\ UNCHANGED <<epoch_start_time, item_start_time, num_batches>>

on_train_batch_start(batch_idx) ==
    /\ batch_start(batch_idx, TRUE)
    /\ events' = Append(events, Event("batch_start", batch_idx))
    /\ lastCall' = Call("on_train_batch_start", "returned", NoValue)
    /\ UNCHANGED <<family, historyVars, metrics, random_state, now, rng, logged>>

on_validation_batch_start(batch_idx) ==
    /\ batch_start(batch_idx, FALSE)
    /\ events' = Append(events, Event("batch_start", batch_idx))
    /\ lastCall' = Call("on_validation_batch_start", "returned", NoValue)
    /\ UNCHANGED <<family, historyVars, metrics, random_state, now, rng, logged>>

on_batch_end ==
    /\ item_start_time' = now
    /\ num_batches' = num_batches + 1
    /\ events' = Append(events, Event("on_batch_end", 0))
    /\ lastCall' = Call("on_batch_end", "returned", NoValue)
    /\ UNCHANGED <<epoch_start_time, num_load_time_warnings, num_load_time_exceeded,
                   total_extra_load_time, total_load_time>>
    /\ UNCHANGED <<family, historyVars, metrics, random_state, now, rng,
                   warningsLogged, logged>>

\* write_loss: self.log(metric_name, loss), then the read of self.metrics_train
\* or self.metrics_val.  It never touches self.metrics.
write_loss(is_training, loss) ==
    LET metric_name == IF is_training THEN "train_loss" ELSE "val_loss"
        target == IF is_training THEN "metrics_train" ELSE "metrics_val"
    IN [entry |-> [name |-> metric_name, value |-> loss, epoch |-> current_epoch],
        outcome |-> IF HasAttr(target) THEN "returned" ELSE "AttributeError"]

----------------------------------------------------------------------------
\* SegmentationLightning and ScalarLightning: the steps

RECURSIVE AddHueMetrics(_, _, _)
\* lines 263-267 with one crop per minibatch: DICE and VOXEL_COUNT per hue
AddHueMetrics(m, sample, i) ==
    IF i > Len(m.hues) THEN m
    ELSE LET hue == m.hues[i]
             withDice == add_metric(m, "DICE", compute_dice_across_patches(sample, i), hue)
             withVoxels == add_metric(withDice, "VOXEL_COUNT",
                                      get_number_of_voxels_per_class(sample, i), hue)
         IN AddHueMetrics(withVoxels, sample, i + 1)

\* lines 262-272: what the step stores in self.metrics
StoreStepMetrics(m, sample) ==
    add_diagnostics(
        AddHueMetrics(add_metric(m, "LOSS", loss_fn(sample), DEFAULT_HUE_KEY), sample, 1),
        "PATCH_CENTER", center_indices(sample))

SegmentationLightning_training_or_validation_step(sample, is_training) ==
    LET loss == loss_fn(sample)
        written == write_loss(is_training, loss)
    IN /\ family = "segmentation"
       /\ metrics' = StoreStepMetrics(metrics, sample)
       /\ logged' = Append(logged, written.entry)
       /\ lastCall' = Call(IF is_training THEN "training_step" ELSE "validation_step",
                           written.outcome,
                           IF written.outcome = "returned" THEN <<loss>> ELSE NoValue)
       /\ UNCHANGED <<family, timerVars, historyVars, random_state, now, rng,
                      warningsLogged, events>>

training_step(sample) == SegmentationLightning_training_or_validation_step(sample, TRUE)

validation_step(sample) == SegmentationLightning_training_or_validation_step(sample, FALSE)

ScalarLightning_training_or_validation_step(sample, is_training) ==
    LET loss == loss_fn(sample)
        written == write_loss(is_training, loss)
    IN /\ family = "scalar"
       /\ logged' = Append(logged, written.entry)
       /\ lastCall' = Call(IF is_training THEN "training_or_validation_step(train)"
                                          ELSE "training_or_validation_step(val)",
                           written.outcome,
                           IF written.outcome = "returned" THEN <<loss>> ELSE NoValue)
       /\ UNCHANGED <<family, timerVars, historyVars, metrics, random_state, now, rng,
                      warningsLogged, events>>

----------------------------------------------------------------------------
\* The environment: the clock, and code that draws random numbers

Tick ==
    /\ now < MaxTime
    /\ now' = now + 1
    /\ UNCHANGED <<family, timerVars, historyVars, metrics, random_state, lastCall,
                   rng, warningsLogged, logged, events>>

DrawRandom ==
    /\ rng' = (rng + 1) % NumRng
    /\ UNCHANGED <<family, timerVars, historyVars, metrics, random_state, lastCall,
                   now, warningsLogged, logged, events>>

----------------------------------------------------------------------------
\* Specifications

BatchIdxs == {0, 1}

Init ==
    /\ DmInit
    /\ LmInit
    /\ current_epoch = 0
    /\ trainerPos = "epoch_begin"

Frame == UNCHANGED <<dmVars, trainerVars>>

EventsLeft == Len(events) <= MaxEvents

TrainEpochsLeft == Len(train_metrics_per_epoch) < MaxEpochs

ValidationEpochsLeft == Len(validation_metrics_per_epoch) < MaxEpochs

StepsLeft ==
    /\ Len(SelectValues(metrics.values, "LOSS", DEFAULT_HUE_KEY)) < MaxSteps
    /\ Len(logged) < MaxLogged

\* the data module under any sequence of calls, next to a module whose epochs
\* the framework starts
DataNext ==
    \/ \E c \in Configs : Dm_init__(c) /\ UNCHANGED <<lmVars, trainerVars>>
    \/ setup /\ UNCHANGED <<lmVars, trainerVars>>
    \/ train_dataloader /\ UNCHANGED <<lmVars, trainerVars>>
    \/ val_dataloader /\ UNCHANGED <<lmVars, trainerVars>>
    \/ test_dataloader /\ UNCHANGED <<lmVars, trainerVars>>
    \/ on_train_epoch_start /\ Frame
    \/ on_validation_epoch_start /\ Frame

SpecData == Init /\ [][DataNext]_vars

\* the timers: epoch and batch hooks in any order, with the clock running
TimerNext ==
    \/ on_train_epoch_start /\ Frame
    \/ on_validation_epoch_start /\ Frame
    \/ \E i \in BatchIdxs : EventsLeft /\ on_train_batch_start(i) /\ Frame
    \/ \E i \in BatchIdxs : EventsLeft /\ on_validation_batch_start(i) /\ Frame
    \/ EventsLeft /\ on_batch_end /\ Frame
    \/ Tick /\ Frame

SpecTimers == Init /\ [][TimerNext]_vars

\* the random state: epoch hooks in any order, between code that draws
\* random numbers
RandomNext ==
    \/ on_train_epoch_start /\ Frame
    \/ on_validation_epoch_start /\ Frame
    \/ TrainEpochsLeft /\ on_train_epoch_end /\ Frame
    \/ ValidationEpochsLeft /\ on_validation_epoch_end /\ Frame
    \/ DrawRandom /\ Frame

SpecRandom == Init /\ [][RandomNext]_vars

\* The framework's fit loop: the validation epoch of an epoch runs between the
\* last training step and on_train_epoch_end.  The loop goes on after a step
\* that raised.
Trainer(from, to) ==
    /\ trainerPos = from
    /\ trainerPos' = to
    /\ current_epoch' = IF to = "epoch_begin" THEN current_epoch + 1 ELSE current_epoch
    /\ UNCHANGED dmVars

Next ==
    \/ current_epoch < MaxEpochs /\ on_train_epoch_start
           /\ Trainer("epoch_begin", "training")
    \/ \E s \in Samples : StepsLeft /\ training_step(s)
           /\ Trainer("training", "training")
    \/ \E s \in Samples : StepsLeft
           /\ ScalarLightning_training_or_validation_step(s, TRUE)
           /\ Trainer("training", "training")
    \/ on_validation_epoch_start /\ Trainer("training", "validating")
    \/ \E s \in Samples : StepsLeft /\ validation_step(s)
           /\ Trainer("validating", "validating")
    \/ \E s \in Samples : StepsLeft
           /\ ScalarLightning_training_or_validation_step(s, FALSE)
           /\ Trainer("validating", "validating")
    \/ on_validation_epoch_end /\ Trainer("validating", "validated")
    \/ on_train_epoch_end /\ Trainer("validated", "epoch_begin")

Spec == Init /\ [][Next]_vars

----------------------------------------------------------------------------
\* Properties

EpochStartCall == on_train_epoch_start \/ on_validation_epoch_start

\* C1: at the start of every training and validation epoch, for both
\* families, self.metrics is replaced by a new, empty accumulator.
C1_MetricsResetPerEpoch ==
    [][EpochStartCall =>
          /\ metrics'.id # metrics.id
          /\ metrics'.values = <<>>
          /\ metrics'.diagnostics = <<>>]_vars

IsAppendOfOne(after, before) ==
    /\ Len(after) = Len(before) + 1
    /\ SubSeq(after, 1, Len(before)) = before

JustReset == Len(events) = 1 /\ events[1].op = "reset_timers"

\* C3: after every epoch start hook, until the next batch hook, the three
\* counters and the two load time totals are 0 and both start times are the
\* time of the hook call, whatever an earlier epoch accumulated.
C3_TimersResetAtEpochStart ==
    JustReset =>
        /\ num_load_time_warnings = 0
        /\ num_load_time_exceeded = 0
        /\ num_batches = 0
        /\ total_load_time = 0
        /\ total_extra_load_time = 0
        /\ epoch_start_time = events[1].t
        /\ item_start_time = events[1].t

C3_Witness ==
    /\ JustReset
    /\ family = "segmentation"
    /\ lastCall.op = "on_validation_epoch_start"
    /\ warningsLogged >= 2
    /\ epoch_start_time > MAX_ITEM_LOAD_TIME_SEC + 1
    /\ num_load_time_warnings = 0

\* C4: self.random_state changes only when on_train_epoch_end snapshots the
\* generator state of that moment, and on_train_epoch_start leaves the
\* generators in the snapshotted state, or untouched when there is none.
C4_RandomStateRestored ==
    [][/\ random_state' # random_state =>
             on_train_epoch_end /\ random_state' = <<rng>>
       /\ on_train_epoch_end => random_state' = <<rng>> /\ rng' = rng
       /\ on_train_epoch_start =>
             /\ random_state' = random_state
             /\ rng' = IF random_state = NoValue THEN rng ELSE random_state[1]]_vars

C4_Witness ==
    /\ lastCall.op = "on_train_epoch_start"
    /\ random_state # NoValue
    /\ random_state[1] # get_effective_random_seed
    /\ rng = random_state[1]
    /\ Len(validation_metrics_per_epoch) > 0

\* C5: test_dataloader raises NotImplementedError in every state, returns no
\* loader and leaves data_loaders unchanged; train_dataloader and
\* val_dataloader called after setup return the TRAIN and the VAL loader that
\* setup created.
C5_DataLoaders ==
    [][/\ dmCall'.op = "test_dataloader" =>
             /\ dmCall'.outcome = "NotImplementedError"
             /\ dmCall'.ret = NoLoader
             /\ data_loaders' = data_loaders
       /\ dmCall.op = "setup" /\ dmCall'.op = "train_dataloader" =>
             /\ data_loaders.kind = "dict"
             /\ dmCall'.outcome = "returned"
             /\ dmCall'.ret = data_loaders.TRAIN
       /\ dmCall.op = "setup" /\ dmCall'.op = "val_dataloader" =>
             /\ data_loaders.kind = "dict"
             /\ dmCall'.outcome = "returned"
             /\ dmCall'.ret = data_loaders.VAL]_vars

\* the part of C5 about test_dataloader alone
C5_TestDataloaderRaises ==
    [][dmCall'.op = "test_dataloader" =>
          /\ dmCall'.outcome = "NotImplementedError"
          /\ dmCall'.ret = NoLoader
          /\ data_loaders' = data_loaders]_vars

\* the part of C5 about the two other loaders, once setup has created them
C5_LoadersOnceCreated ==
    [][/\ dmCall'.op = "train_dataloader" /\ data_loaders.kind = "dict" =>
             /\ dmCall'.outcome = "returned"
             /\ dmCall'.ret = <<"train_loader", dm_config[1]>>
       /\ dmCall'.op = "val_dataloader" /\ data_loaders.kind = "dict" =>
             /\ dmCall'.outcome = "returned"
             /\ dmCall'.ret = <<"val_loader", dm_config[1]>>]_vars

RECURSIVE LoggedValues(_, _, _)
\* the values given to self.log under the name in the epoch, in order
LoggedValues(seq, name, epoch) ==
    IF seq = <<>> THEN <<>>
    ELSE LET e == Head(seq)
             rest == LoggedValues(Tail(seq), name, epoch)
         IN IF e.name = name /\ e.epoch = epoch THEN <<e.value>> \o rest ELSE rest

\* the sum and the number of the LOSS values an epoch result aggregates
EntryLoss(entry) ==
    LET found == {r \in entry.agg : r.metric = "LOSS" /\ r.hue = DEFAULT_HUE_KEY}
    IN IF found = {} THEN <<0, 0>>
       ELSE LET r == CHOOSE x \in found : TRUE IN <<r.sum, r.count>>

LossOfSteps(name, epoch) ==
    <<SumSeq(LoggedValues(logged, name, epoch)), Len(LoggedValues(logged, name, epoch))>>

\* C6: under the framework's hook order, the entry of train_metrics_per_epoch
\* for an epoch aggregates exactly the losses of that epoch's training steps,
\* and the entry of validation_metrics_per_epoch those of its validation steps.
C6_EpochResultPerMode ==
    family = "segmentation" =>
        /\ \A i \in 1..Len(train_metrics_per_epoch) :
               EntryLoss(train_metrics_per_epoch[i]) = LossOfSteps("train_loss", i - 1)
        /\ \A i \in 1..Len(validation_metrics_per_epoch) :
               EntryLoss(validation_metrics_per_epoch[i]) = LossOfSteps("val_loss", i - 1)

\* C7: the slow-minibatch warning is logged at most MAX_LOAD_TIME_WARNINGS
\* times over any sequence of hook calls.
C7_AtMostThreeWarnings == warningsLogged <= MAX_LOAD_TIME_WARNINGS

\* the calls since the last reset, read off the call trace
BatchStarts == {i \in 2..Len(events) : events[i].op = "batch_start"}

\* the call before call i that set item_start_time: the last on_batch_end, or
\* the reset
LastMark(i) ==
    CHOOSE j \in 1..(i - 1) :
        /\ events[j].op # "batch_start"
        /\ \A k \in (j + 1)..(i - 1) : events[k].op = "batch_start"

LoadTime(i) == events[i].t - events[LastMark(i)].t

SlowBatchStarts ==
    {i \in BatchStarts : events[i].idx # 0 /\ LoadTime(i) > MAX_ITEM_LOAD_TIME_SEC}

RECURSIVE SumLoadTime(_)
SumLoadTime(S) ==
    IF S = {} THEN 0
    ELSE LET i == CHOOSE x \in S : TRUE IN LoadTime(i) + SumLoadTime(S \ {i})

\* every batch_start of the trace is followed by an on_batch_end
EachStartEnded ==
    \A i \in BatchStarts : i < Len(events) /\ events[i + 1].op = "on_batch_end"

\* C8: since the last timer reset, num_load_time_exceeded counts the
\* batch_start calls with batch_idx # 0 whose load time is strictly above
\* MAX_ITEM_LOAD_TIME_SEC, total_extra_load_time is the sum of their load
\* times, total_load_time the sum of all load times, the first included; so
\* the extra is at most the total, and the slow batches are at most
\* num_batches when every batch_start was followed by on_batch_end.
C8_SlowLoadAccounting ==
    events[1].op = "reset_timers" =>
        /\ num_load_time_exceeded = Cardinality(SlowBatchStarts)
        /\ total_extra_load_time = SumLoadTime(SlowBatchStarts)
        /\ total_load_time = SumLoadTime(BatchStarts)
        /\ num_batches = Cardinality({i \in 2..Len(events) : events[i].op = "on_batch_end"})
        /\ total_extra_load_time <= total_load_time
        /\ EachStartEnded => num_load_time_exceeded <= num_batches

C8_Witness ==
    /\ events[1].op = "reset_timers"
    /\ lastCall.op = "on_batch_end"
    /\ num_batches = 1
    /\ num_load_time_exceeded = 1
    /\ total_load_time > total_extra_load_time
    /\ \E i \in BatchStarts : events[i].idx = 0 /\ LoadTime(i) > MAX_ITEM_LOAD_TIME_SEC

StepCalls ==
    {"training_step", "validation_step", "training_or_validation_step(train)",
     "training_or_validation_step(val)"}

\* C9: every training and validation step, and the write_loss it calls, ends
\* without an error: the step returns the loss it gave self.log under
\* train_loss or val_loss.
C9_WriteLossSucceeds ==
    lastCall.op \in StepCalls =>
        /\ lastCall.outcome = "returned"
        /\ lastCall.ret = <<logged[Len(logged)].value>>
        /\ logged[Len(logged)].name =
               IF lastCall.op \in {"training_step", "training_or_validation_step(train)"}
               THEN "train_loss" ELSE "val_loss"

=============================================================================
